---- MODULE Spec2Model ----
(***************************************************************************)
(* Model of the websocket commands that manage the credentials of the      *)
(* Home Assistant local auth provider                                      *)
(* (homeassistant/components/config/auth_provider_homeassistant.py).       *)
(*                                                                         *)
(* Every handler is a coroutine: it runs from one await to the next, and   *)
(* another handler may run at each await.  A handler invocation is a       *)
(* process p, pc[p] is the await it is suspended at, and one action is the *)
(* effect of the awaited call together with the synchronous code that      *)
(* follows it up to the next await.                                        *)
(***************************************************************************)
EXTENDS Integers, Sequences, FiniteSets, TLC

\* ------------------------------------------------------------------ bounds
MaxCreds == 4          \* credentials a user may come to hold

Procs == {1, 2}        \* the handler invocations that may be in flight at once

\* ------------------------------------------------------------- input sets
Users == <<"owner", "admin", "sys">>      \* the users of the auth store, in store order
UserIds == {Users[i] : i \in 1..Len(Users)}
UnknownUserId == "nobody"                  \* a user_id that does not resolve
NoUser == "None"                           \* Python None for a user
Unset == "unset"                           \* a local that is not assigned yet
Usernames == {"a", "b", "c"}
NoUsername == "None"

P5 == <<1, 2, 3, 4, 5>>
P6 == <<1, 2, 3, 4, 5, 6>>
P7 == <<1, 2, 3, 4, 5, 6, 7>>
Passwords == {P5, P6, P7}
NoPassword == <<>>

is_owner(u) == u = "owner"
system_generated(u) == u = "sys"
Admins == {"owner", "admin"}               \* callers that pass require_admin

PROVIDER_TYPE == "homeassistant"           \* provider.type of the local provider
OTHER_TYPE == "trusted_networks"           \* some other provider's type

\* ------------------------------------------------------------------ state
VARIABLES
    authData,     \* provider.data.users: username -> stored password hash
    userCreds,    \* user.credentials of each user: sequence of [ptype, username]
    pc,           \* where each invocation is suspended
    msg,          \* the command each invocation handles, with connection.user
    loc,          \* locals of each invocation: user, username, credentials
    resp,         \* what each invocation answered: send_result, send_error or a raise
    calls,        \* the provider, store and sync calls each invocation has made
    synclog,      \* the POSTs each invocation made to the sync endpoint
    pre,          \* the auth store as it was when the invocation was dispatched
    prev,         \* the create that returned last, when it gave a user their first
                  \* local credential and no command has returned since
    associations,           \* zwave: node.groups[1].associations of each node
    change_verified,        \* zwave: the change_verified flag of each value
    returned,               \* zwave: the last discovery and what it returned
    add_association_calls,  \* zwave: the add_association calls made for each node
    discoveries             \* zwave: per node, its associations before the first
                            \* discovery and the number of discoveries made

authvars == <<authData, userCreds, pc, msg, loc, resp, calls, synclog, pre, prev>>
zwavevars == <<associations, change_verified, returned, add_association_calls, discoveries>>
vars == <<authvars, zwavevars>>

\* A local that holds a Credentials object refers to the object by where it
\* is: linked to a user at a position of user.credentials, new (built by
\* get_or_create and linked to nobody, is_new set), or detached (unlinked by
\* another invocation since it was looked up).
NoRef == [kind |-> "none", user |-> "", idx |-> 0, username |-> ""]
LinkedRef(u, i) == [kind |-> "linked", user |-> u, idx |-> i, username |-> ""]
NewRef(username) == [kind |-> "new", user |-> "", idx |-> 0, username |-> username]
DetachedRef(username) == [kind |-> "detached", user |-> "", idx |-> 0, username |-> username]

NoAuth == <<>>
NoMsg == [type |-> "", conn_user |-> NoUser, user_id |-> "", username |-> "",
          password |-> NoPassword, current_password |-> NoPassword,
          new_password |-> NoPassword]
NoLoc == [user |-> Unset, username |-> Unset, credentials |-> NoRef]
NoResp == [kind |-> "none", code |-> ""]
NoPre == [authData |-> <<>>, userCreds |-> <<>>]
NoPrev == [user_id |-> "", username |-> ""]

Result == [kind |-> "result", code |-> ""]
Error(code) == [kind |-> "error", code |-> code]
Raised(exc) == [kind |-> "raised", code |-> exc]

\* ------------------------------------------------- the provider's password
\* storage: passwords are stored hashed and compared by hash
Hash(password) == <<"bcrypt", password>>

Registered(data, username) == username \in DOMAIN data /\ data[username] # NoAuth

\* provider.async_validate_login: InvalidAuth unless the username is
\* registered and the password matches the stored hash
validate_login(data, username, password) ==
    /\ Registered(data, username)
    /\ data[username] = Hash(password)

\* provider.async_add_auth: InvalidUser when the username is registered
add_auth_raises(data, username) == Registered(data, username)
add_auth(data, username, password) == [data EXCEPT ![username] = Hash(password)]

\* provider.async_remove_auth: InvalidUser when the username is not registered
remove_auth_raises(data, username) == ~Registered(data, username)
remove_auth(data, username) == [data EXCEPT ![username] = NoAuth]

\* provider.async_change_password: InvalidUser when the username is not registered
change_password_raises(data, username) == ~Registered(data, username)
change_password(data, username, password) == [data EXCEPT ![username] = Hash(password)]

\* provider.async_change_username: InvalidUser when the new username is
\* registered or the credential's username is not
change_username_raises(data, old, new) ==
    Registered(data, new) \/ ~Registered(data, old)
change_username(data, old, new) ==
    [data EXCEPT ![new] = data[old], ![old] = NoAuth]

\* ------------------------------------------------------- the auth store
IsLocal(credential) == credential.ptype = PROVIDER_TYPE

\* position of the first credential of s that satisfies the test given as the
\* set of positions that do, 0 when there is none
First(positions) ==
    IF positions = {} THEN 0
    ELSE CHOOSE i \in positions : \A j \in positions : i <= j

\* the loop without its test of credential.auth_provider_type
FirstLocalCredential_any_type(uc, user) ==
    First(1..Len(uc[user]))

\* the loop "for credential in user.credentials: if type matches: ...; break"
FirstLocalCredential(uc, user) ==
    First({i \in 1..Len(uc[user]) : IsLocal(uc[user][i])})

\* hass.auth.async_get_user
async_get_user(user_id) == IF user_id \in UserIds THEN user_id ELSE NoUser

\* the linked credential of the local provider with the username: the first
\* in store order
ExistingCredentials(uc, username) ==
    LET Pos(u) == First({i \in 1..Len(uc[u]) :
                            IsLocal(uc[u][i]) /\ uc[u][i].username = username})
        k == First({k \in 1..Len(Users) : Pos(Users[k]) # 0})
    IN IF k = 0 THEN NoRef ELSE LinkedRef(Users[k], Pos(Users[k]))

\* credential.data["username"] of the object a local refers to
RefUsername(uc, ref) ==
    IF ref.kind = "linked" THEN uc[ref.user][ref.idx].username ELSE ref.username

RemoveAt(s, i) == [j \in 1..(Len(s) - 1) |-> IF j < i THEN s[j] ELSE s[j + 1]]

\* what a reference becomes when the credential at position i of user u is
\* unlinked
AfterUnlink(ref, uc, u, i) ==
    IF ref.kind = "linked" /\ ref.user = u
    THEN IF ref.idx = i THEN DetachedRef(uc[u][i].username)
         ELSE IF ref.idx > i THEN LinkedRef(u, ref.idx - 1)
         ELSE ref
    ELSE ref

\* ------------------------------------------------------------------- Init
InitUserCreds ==
    [u \in UserIds |->
        IF u = "admin"
        THEN <<[ptype |-> OTHER_TYPE, username |-> ""],
               [ptype |-> PROVIDER_TYPE, username |-> "a"]>>
        ELSE <<>>]

InitAuth ==
    /\ authData \in {[u \in Usernames |-> IF u = "a" THEN Hash(P6)
                                            ELSE IF u = "b" THEN b ELSE NoAuth] :
                        b \in {NoAuth, Hash(P7)}}
    /\ userCreds = InitUserCreds
    /\ pc = [p \in Procs |-> "idle"]
    /\ msg = [p \in Procs |-> NoMsg]
    /\ loc = [p \in Procs |-> NoLoc]
    /\ resp = [p \in Procs |-> NoResp]
    /\ calls = [p \in Procs |-> <<>>]
    /\ synclog = [p \in Procs |-> <<>>]
    /\ pre = [p \in Procs |-> NoPre]
    /\ prev = NoPrev

\* the auth commands run without a Z-Wave network (zwave.NETWORK is not set up)
NoNetwork ==
    /\ associations = <<>>
    /\ change_verified = <<>>
    /\ returned = <<>>
    /\ add_association_calls = <<>>
    /\ discoveries = <<>>

Init == InitAuth /\ NoNetwork

\* ------------------------------------------------------------- commands
CreateMsgs ==
    {[NoMsg EXCEPT !.type = "create", !.conn_user = a, !.user_id = u,
                   !.username = n, !.password = w] :
        a \in Admins, u \in UserIds \cup {UnknownUserId}, n \in Usernames, w \in Passwords}
DeleteMsgs ==
    {[NoMsg EXCEPT !.type = "delete", !.conn_user = a, !.username = n] :
        a \in Admins, n \in Usernames}
ChangePasswordMsgs ==
    {[NoMsg EXCEPT !.type = "change_password", !.conn_user = a,
                   !.current_password = c, !.new_password = w] :
        a \in UserIds, c \in Passwords, w \in Passwords}
\* change_password on a connection without a user: the case lines 118-120
\* answer, which the type of connection.user rules out
UnauthenticatedMsgs ==
    {[NoMsg EXCEPT !.type = "change_password", !.conn_user = NoUser,
                   !.current_password = c, !.new_password = w] :
        c \in Passwords, w \in Passwords}
AdminChangePasswordMsgs ==
    {[NoMsg EXCEPT !.type = "admin_change_password", !.conn_user = a, !.user_id = u,
                   !.password = w] :
        a \in Admins, u \in UserIds \cup {UnknownUserId}, w \in Passwords}
AdminChangeUsernameMsgs ==
    {[NoMsg EXCEPT !.type = "admin_change_username", !.conn_user = a, !.user_id = u,
                   !.username = n] :
        a \in Admins, u \in UserIds \cup {UnknownUserId}, n \in Usernames}
Msgs ==
    CreateMsgs \cup DeleteMsgs \cup ChangePasswordMsgs
        \cup AdminChangePasswordMsgs \cup AdminChangeUsernameMsgs

\* the commands of the concurrent specification: the owner administers, the
\* user "admin" changes its own password
ConcurrentMsgs ==
    {m \in Msgs :
        /\ m.username # "c"
        /\ m.type # "change_password" => m.conn_user = "owner"
        /\ m.type = "change_password" =>
              m.conn_user = "admin" /\ m.current_password # P5 /\ m.new_password = P7
        /\ m.type = "create" => m.user_id \in {"owner", "sys"} /\ m.password = P6
        /\ m.type = "admin_change_password" => m.user_id = "admin" /\ m.password = P6
        /\ m.type = "admin_change_username" => m.user_id = "admin"}

Goto(p, label) == pc' = [pc EXCEPT ![p] = label]
Answer(p, r) == resp' = [resp EXCEPT ![p] = r]
Done(p, r) == Goto(p, "done") /\ Answer(p, r)
SetLoc(p, field, v) == loc' = [loc EXCEPT ![p][field] = v]
Call(p, name) == calls' = [calls EXCEPT ![p] = Append(@, name)]

\* the websocket API hands command m to its handler
Dispatch(p, m) ==
    /\ pc[p] = "idle"
    /\ msg' = [msg EXCEPT ![p] = m]

\* the handler has returned (or raised): its locals are gone
Return(p) ==
    /\ pc[p] = "done"
    /\ pc' = [pc EXCEPT ![p] = "idle"]
    /\ msg' = [msg EXCEPT ![p] = NoMsg]
    /\ loc' = [loc EXCEPT ![p] = NoLoc]
    /\ resp' = [resp EXCEPT ![p] = NoResp]
    /\ calls' = [calls EXCEPT ![p] = <<>>]
    /\ synclog' = [synclog EXCEPT ![p] = <<>>]
    /\ UNCHANGED <<authData, userCreds>>

\* create_check without the system_generated check
create_check_no_system_generated(user) ==
    IF user = NoUser THEN "not_found" ELSE ""

\* create_check that protects the owner instead of the system-generated users
create_check_owner(user) ==
    IF user = NoUser THEN "not_found"
    ELSE IF is_owner(user) THEN "system_generated"
    ELSE ""

\* ---------------------------------------------------------------- create
\* the checks of websocket_create on the target user: the error code, "" when none
create_check(user) ==
    IF user = NoUser THEN "not_found"
    ELSE IF system_generated(user) THEN "system_generated"
    ELSE ""

create_get_user(p, m) ==
    /\ Dispatch(p, m)
    /\ Call(p, "async_get_user")
    /\ LET user == async_get_user(m.user_id)
       IN /\ SetLoc(p, "user", user)
          /\ IF create_check(user) # ""
             THEN Done(p, Error(create_check(user)))
             ELSE Goto(p, "create_add_auth") /\ UNCHANGED resp
    /\ UNCHANGED <<authData, userCreds, synclog>>

create_add_auth(p) ==
    /\ pc[p] = "create_add_auth"
    /\ Call(p, "async_add_auth")
    /\ IF add_auth_raises(authData, msg[p].username)
       THEN Done(p, Raised("InvalidUser")) /\ UNCHANGED authData
       ELSE /\ authData' = add_auth(authData, msg[p].username, msg[p].password)
            /\ Goto(p, "create_get_credentials")
            /\ UNCHANGED resp
    /\ UNCHANGED <<userCreds, msg, loc, synclog>>

\* provider.async_get_or_create_credentials({"username": username}): the
\* linked credential of that username, or a new object with is_new set
get_or_create_credentials(uc, username) ==
    LET ref == ExistingCredentials(uc, username)
    IN IF ref # NoRef THEN ref ELSE NewRef(username)

is_new(ref) == ref.kind = "new"

create_get_credentials(p) ==
    /\ pc[p] = "create_get_credentials"
    /\ Call(p, "async_get_or_create_credentials")
    /\ SetLoc(p, "credentials", get_or_create_credentials(userCreds, msg[p].username))
    /\ Goto(p, "create_link_user")
    /\ UNCHANGED <<authData, userCreds, msg, resp, synclog>>

\* hass.auth.async_link_user: nothing when the credential is linked to the
\* user already, ValueError when it is linked to another user
async_link_user(p, user, ref) ==
    LET linked == IF ref.kind = "linked" THEN ref.user ELSE NoUser
    IN IF linked = user
       THEN Done(p, Result) /\ UNCHANGED <<userCreds, loc>>
       ELSE IF linked # NoUser
       THEN Done(p, Raised("ValueError")) /\ UNCHANGED <<userCreds, loc>>
       ELSE /\ Len(userCreds[user]) < MaxCreds
            /\ userCreds' = [userCreds EXCEPT ![user] =
                  Append(@, [ptype |-> PROVIDER_TYPE, username |-> ref.username])]
            /\ SetLoc(p, "credentials", LinkedRef(user, Len(userCreds[user]) + 1))
            /\ Done(p, Result)

\* create_link_user that answers without linking the credential
create_link_user_skipped(p) ==
    /\ pc[p] = "create_link_user"
    /\ Call(p, "async_link_user")
    /\ Done(p, Result)
    /\ UNCHANGED <<authData, userCreds, msg, loc, synclog>>

create_link_user(p) ==
    /\ pc[p] = "create_link_user"
    /\ Call(p, "async_link_user")
    /\ async_link_user(p, loc[p].user, loc[p].credentials)
    /\ UNCHANGED <<authData, msg, synclog>>

websocket_create(p, M) ==
    \/ \E m \in M \cap CreateMsgs : create_get_user(p, m)
    \/ create_add_auth(p)
    \/ create_get_credentials(p)
    \/ create_link_user(p)

\* ---------------------------------------------------------------- delete
\* the branches taken the wrong way round: is_new leads to the removal of the
\* credential
delete_get_credentials_inverted(p, m) ==
    /\ Dispatch(p, m)
    /\ Call(p, "async_get_or_create_credentials")
    /\ LET credentials == get_or_create_credentials(userCreds, m.username)
       IN /\ SetLoc(p, "credentials", credentials)
          /\ IF is_new(credentials)
             THEN Goto(p, "delete_remove_credentials")
             ELSE Goto(p, "delete_remove_auth")
    /\ UNCHANGED <<authData, userCreds, resp, synclog>>

delete_get_credentials(p, m) ==
    /\ Dispatch(p, m)
    /\ Call(p, "async_get_or_create_credentials")
    /\ LET credentials == get_or_create_credentials(userCreds, m.username)
       IN /\ SetLoc(p, "credentials", credentials)
          /\ IF ~is_new(credentials)
             THEN Goto(p, "delete_remove_credentials")
             ELSE Goto(p, "delete_remove_auth")
    /\ UNCHANGED <<authData, userCreds, resp, synclog>>

\* hass.auth.async_remove_credentials: the provider drops the registration of
\* the credential's username (ignoring InvalidUser), the store unlinks the
\* credential from the user that holds it
async_remove_credentials(ref) ==
    /\ authData' = IF remove_auth_raises(authData, RefUsername(userCreds, ref))
                   THEN authData
                   ELSE remove_auth(authData, RefUsername(userCreds, ref))
    /\ IF ref.kind = "linked"
       THEN /\ userCreds' = [userCreds EXCEPT ![ref.user] = RemoveAt(@, ref.idx)]
            /\ loc' = [q \in Procs |->
                  [loc[q] EXCEPT !.credentials = AfterUnlink(@, userCreds, ref.user, ref.idx)]]
       ELSE UNCHANGED <<userCreds, loc>>

delete_remove_credentials(p) ==
    /\ pc[p] = "delete_remove_credentials"
    /\ Call(p, "async_remove_credentials")
    /\ async_remove_credentials(loc[p].credentials)
    /\ Done(p, Result)
    /\ UNCHANGED <<msg, synclog>>

delete_remove_auth(p) ==
    /\ pc[p] = "delete_remove_auth"
    /\ Call(p, "async_remove_auth")
    /\ IF remove_auth_raises(authData, msg[p].username)
       THEN Done(p, Raised("InvalidUser")) /\ UNCHANGED authData
       ELSE /\ authData' = remove_auth(authData, msg[p].username)
            /\ Done(p, Result)
    /\ UNCHANGED <<userCreds, msg, loc, synclog>>

websocket_delete(p, M) ==
    \/ \E m \in M \cap DeleteMsgs : delete_get_credentials(p, m)
    \/ delete_remove_credentials(p)
    \/ delete_remove_auth(p)

\* ------------------------------------------------------- change_password
MIN_PASSWORD_LEN == 6
\* too_short with the limit off by one
too_short_off_by_one(password) == Len(password) < MIN_PASSWORD_LEN - 1

too_short(password) == Len(password) < MIN_PASSWORD_LEN

\* username of the user's first credential of the local provider, None when
\* the user has none
find_username(user) ==
    LET i == FirstLocalCredential(userCreds, user)
    IN IF i = 0 THEN NoUsername ELSE userCreds[user][i].username

\* the checks with the credential lookup made before the length check
change_password_check_lookup_first(user, new_password) ==
    IF user = NoUser THEN "user_not_found"
    ELSE IF find_username(user) = NoUsername THEN "credentials_not_found"
    ELSE IF too_short(new_password) THEN "invalid_password"
    ELSE ""

\* the checks websocket_change_password makes before its first await: the
\* error code, "" when none
change_password_check(user, new_password) ==
    IF user = NoUser THEN "user_not_found"
    ELSE IF too_short(new_password) THEN "invalid_password"
    ELSE IF find_username(user) = NoUsername THEN "credentials_not_found"
    ELSE ""

change_password_begin(p, m) ==
    /\ Dispatch(p, m)
    /\ LET user == m.conn_user
           code == change_password_check(user, m.new_password)
       IN IF code # ""
          THEN /\ Done(p, Error(code))
               /\ loc' = [loc EXCEPT ![p].user = user]
          ELSE /\ loc' = [loc EXCEPT ![p].user = user, ![p].username = find_username(user)]
               /\ Goto(p, "change_password_validate")
               /\ UNCHANGED resp
    /\ UNCHANGED <<authData, userCreds, calls, synclog>>

\* invalid_current_password with the InvalidAuth of validate_login swallowed
invalid_current_password_ignored(data, username, current_password) ==
    ~Registered(data, username)

\* "try: await provider.async_validate_login(...) except InvalidAuth"
invalid_current_password(data, username, current_password) ==
    ~validate_login(data, username, current_password)

change_password_validate(p) ==
    /\ pc[p] = "change_password_validate"
    /\ Call(p, "async_validate_login")
    /\ IF invalid_current_password(authData, loc[p].username, msg[p].current_password)
       THEN Done(p, Error("invalid_current_password"))
       ELSE Goto(p, "change_password_change") /\ UNCHANGED resp
    /\ UNCHANGED <<authData, userCreds, msg, loc, synclog>>

change_password_change(p) ==
    /\ pc[p] = "change_password_change"
    /\ Call(p, "async_change_password")
    /\ IF change_password_raises(authData, loc[p].username)
       THEN Done(p, Raised("InvalidUser")) /\ UNCHANGED authData
       ELSE /\ authData' = change_password(authData, loc[p].username, msg[p].new_password)
            /\ Goto(p, "change_password_sync")
            /\ UNCHANGED resp
    /\ UNCHANGED <<userCreds, msg, loc, synclog>>

\* ------------------------------------------------ the sync side-channel
AES_ENC_KEY_LEN == 32     \* len(ccs.AES_ENC_KEY)
AES_ENC_IV_LEN == 16      \* len(ccs.AES_ENC_IV)
AES_BLOCK == 16           \* padding.PKCS7(128): 128 bits

\* padding.PKCS7(128): n bytes of value n, n = 16 - len mod 16
PKCS7(data) ==
    LET n == AES_BLOCK - (Len(data) % AES_BLOCK)
    IN data \o [i \in 1..n |-> n]

\* AES-256-CBC under the fixed key and IV, then base64
Encrypt(data) == <<"base64", <<"aes-cbc", PKCS7(data)>>>>

\* what the POST to the sync endpoint comes to: the response status, or a
\* ClientError when the endpoint cannot be reached
SyncOutcomes == {"200", "500", "ClientError"}

\* SyncPayload with the two passwords swapped
SyncPayload_swapped(email, current_password, new_password) ==
    [email |-> email, currentPassword |-> new_password,
     newPassword |-> Encrypt(current_password)]

\* the JSON body of the POST
SyncPayload(email, current_password, new_password) ==
    [email |-> email, currentPassword |-> current_password,
     newPassword |-> Encrypt(new_password)]

\* the response of the handler once the sync call is over: the exception of
\* the POST propagates, any response status is only printed
sync_response(outcome) ==
    IF outcome = "ClientError" THEN Raised("ClientError") ELSE Result

sync_password_with_firebase(p, email, current_password, new_password, outcome) ==
    IF AES_ENC_KEY_LEN # 32 \/ AES_ENC_IV_LEN # 16
    THEN Done(p, Raised("AssertionError")) /\ UNCHANGED synclog
    ELSE /\ synclog' = [synclog EXCEPT ![p] =
                Append(@, [body |-> SyncPayload(email, current_password, new_password),
                           outcome |-> outcome])]
         /\ Done(p, sync_response(outcome))

\* the sync call made again as long as the POST does not answer 200
change_password_sync_retries(p) ==
    /\ pc[p] = "change_password_sync"
    /\ Call(p, "sync_password_with_firebase")
    /\ \E outcome \in SyncOutcomes :
          /\ synclog' = [synclog EXCEPT ![p] =
                 Append(@, [body |-> SyncPayload(loc[p].username, msg[p].current_password,
                                                 msg[p].new_password),
                            outcome |-> outcome])]
          /\ IF outcome = "200"
             THEN Done(p, Result)
             ELSE Goto(p, "change_password_sync") /\ UNCHANGED resp
    /\ UNCHANGED <<authData, userCreds, msg, loc>>

change_password_sync(p) ==
    /\ pc[p] = "change_password_sync"
    /\ Call(p, "sync_password_with_firebase")
    /\ \E outcome \in SyncOutcomes :
          sync_password_with_firebase(p, loc[p].username, msg[p].current_password,
                                      msg[p].new_password, outcome)
    /\ UNCHANGED <<authData, userCreds, msg, loc>>

websocket_change_password(p, M) ==
    \/ \E m \in M \cap (ChangePasswordMsgs \cup UnauthenticatedMsgs) :
          change_password_begin(p, m)
    \/ change_password_validate(p)
    \/ change_password_change(p)
    \/ change_password_sync(p)

\* not_owner with the admin check made again in place of the owner check
not_owner_checks_admin(conn_user) == conn_user \notin Admins

\* ------------------------------------------------- admin_change_password
\* "if not connection.user.is_owner: raise Unauthorized"
not_owner(conn_user) == ~is_owner(conn_user)

admin_change_password_begin(p, m) ==
    /\ Dispatch(p, m)
    /\ IF not_owner(m.conn_user)
       THEN Done(p, Raised("Unauthorized"))
       ELSE Goto(p, "admin_change_password_get_user") /\ UNCHANGED resp
    /\ UNCHANGED <<authData, userCreds, loc, calls, synclog>>

\* the lookups without the "if not username" test
admin_check_credentials_unchecked(user) ==
    IF user = NoUser THEN "user_not_found" ELSE ""

\* the user lookup and the credential lookup of the two admin commands: the
\* error code, "" when none
admin_check(user) ==
    IF user = NoUser THEN "user_not_found"
    ELSE IF FirstLocalCredential(userCreds, user) = 0 THEN "credentials_not_found"
    ELSE ""

admin_change_password_get_user(p) ==
    /\ pc[p] = "admin_change_password_get_user"
    /\ Call(p, "async_get_user")
    /\ LET user == async_get_user(msg[p].user_id)
       IN IF admin_check(user) # ""
          THEN /\ Done(p, Error(admin_check(user)))
               /\ SetLoc(p, "user", user)
          ELSE /\ loc' = [loc EXCEPT ![p].user = user, ![p].username = find_username(user)]
               /\ Goto(p, "admin_change_password_change")
               /\ UNCHANGED resp
    /\ UNCHANGED <<authData, userCreds, msg, synclog>>

admin_change_password_change(p) ==
    /\ pc[p] = "admin_change_password_change"
    /\ Call(p, "async_change_password")
    /\ IF change_password_raises(authData, loc[p].username)
       THEN Done(p, Raised("InvalidUser")) /\ UNCHANGED authData
       ELSE /\ authData' = change_password(authData, loc[p].username, msg[p].password)
            /\ Done(p, Result)
    /\ UNCHANGED <<userCreds, msg, loc, synclog>>

websocket_admin_change_password(p, M) ==
    \/ \E m \in M \cap AdminChangePasswordMsgs : admin_change_password_begin(p, m)
    \/ admin_change_password_get_user(p)
    \/ admin_change_password_change(p)

\* ------------------------------------------------- admin_change_username
admin_change_username_begin(p, m) ==
    /\ Dispatch(p, m)
    /\ IF not_owner(m.conn_user)
       THEN Done(p, Raised("Unauthorized"))
       ELSE Goto(p, "admin_change_username_get_user") /\ UNCHANGED resp
    /\ UNCHANGED <<authData, userCreds, loc, calls, synclog>>

admin_change_username_get_user(p) ==
    /\ pc[p] = "admin_change_username_get_user"
    /\ Call(p, "async_get_user")
    /\ LET user == async_get_user(msg[p].user_id)
       IN IF admin_check(user) # ""
          THEN /\ Done(p, Error(admin_check(user)))
               /\ SetLoc(p, "user", user)
          ELSE /\ loc' = [loc EXCEPT ![p].user = user,
                              ![p].credentials =
                                  LinkedRef(user, FirstLocalCredential(userCreds, user))]
               /\ Goto(p, "admin_change_username_change")
               /\ UNCHANGED resp
    /\ UNCHANGED <<authData, userCreds, msg, synclog>>

\* provider.async_change_username(found_credential, username): renames the
\* registration and then the credential's data
admin_change_username_change(p) ==
    /\ pc[p] = "admin_change_username_change"
    /\ Call(p, "async_change_username")
    /\ LET ref == loc[p].credentials
           old == RefUsername(userCreds, ref)
       IN IF change_username_raises(authData, old, msg[p].username)
          THEN Done(p, Raised("InvalidUser")) /\ UNCHANGED <<authData, userCreds, loc>>
          ELSE /\ authData' = change_username(authData, old, msg[p].username)
               /\ IF ref.kind = "linked"
                  THEN /\ userCreds' = [userCreds EXCEPT
                              ![ref.user][ref.idx].username = msg[p].username]
                       /\ UNCHANGED loc
                  ELSE /\ SetLoc(p, "credentials", [ref EXCEPT !.username = msg[p].username])
                       /\ UNCHANGED userCreds
               /\ Done(p, Result)
    /\ UNCHANGED <<msg, synclog>>

websocket_admin_change_username(p, M) ==
    \/ \E m \in M \cap AdminChangeUsernameMsgs : admin_change_username_begin(p, m)
    \/ admin_change_username_get_user(p)
    \/ admin_change_username_change(p)

\* --------------------------------------------- sensor/zwave.py discovery
MaxDiscoveries == 3                      \* discoveries made for one node

CONTROLLER_NODE_ID == 1                  \* zwave.NETWORK.controller.node_id
Nodes == {2, 3}                          \* node ids of zwave.NETWORK.nodes
COMMAND_CLASS_SENSOR_BINARY == "COMMAND_CLASS_SENSOR_BINARY"
COMMAND_CLASS_SENSOR_MULTILEVEL == "COMMAND_CLASS_SENSOR_MULTILEVEL"
COMMAND_CLASS_SWITCH_BINARY == "COMMAND_CLASS_SWITCH_BINARY"
ValueIds == {"v1", "v2", "v3"}           \* value ids of node.values
\* value.command_class
command_class(value_id) ==
    IF value_id = "v1" THEN COMMAND_CLASS_SENSOR_BINARY
    ELSE IF value_id = "v2" THEN COMMAND_CLASS_SENSOR_MULTILEVEL
    ELSE COMMAND_CLASS_SWITCH_BINARY
\* the info dict of a discovery: ATTR_NODE_ID and ATTR_VALUE_ID
Infos == [node_id : Nodes, value_id : ValueIds]

\* what a call returns: None, or a list (kept as the one member of a set, so
\* that None and the empty list differ)
None == {}
List(devs) == {devs}
NoDiscovery == [info |-> [node_id |-> 0, value_id |-> ""], devices |-> None]

\* the network once set up: each node is associated with any of the
\* controller and the other nodes
InitNetwork ==
    /\ associations \in [Nodes -> SUBSET ({CONTROLLER_NODE_ID} \cup Nodes)]
    /\ \A n \in Nodes : n \notin associations[n]
    /\ change_verified = [n \in Nodes |-> [v \in ValueIds |-> TRUE]]
    /\ returned = NoDiscovery
    /\ add_association_calls = [n \in Nodes |-> 0]
    /\ discoveries = [n \in Nodes |-> [before |-> associations[n], count |-> 0]]

\* node.groups[1].add_association(target): the target becomes a member of
\* the group
add_association(group, target) == group \cup {target}

\* the devices returned for a value
ZWaveBinarySensor(info) == [class |-> "ZWaveBinarySensor", value |-> info]
ZWaveMultilevelSensor(info) == [class |-> "ZWaveMultilevelSensor", value |-> info]

devices(info) ==
    IF command_class(info.value_id) = COMMAND_CLASS_SENSOR_BINARY
    THEN List(<<ZWaveBinarySensor(info)>>)
    ELSE IF command_class(info.value_id) = COMMAND_CLASS_SENSOR_MULTILEVEL
    THEN List(<<ZWaveMultilevelSensor(info)>>)
    ELSE None

\* devices_discovered with the membership test left out
devices_discovered_always_adds(info) ==
    LET n == info.node_id
    IN /\ discoveries[n].count < MaxDiscoveries
       /\ change_verified' = [change_verified EXCEPT ![n][info.value_id] = FALSE]
       /\ associations' = [associations EXCEPT
                               ![n] = add_association(@, CONTROLLER_NODE_ID)]
       /\ add_association_calls' = [add_association_calls EXCEPT ![n] = @ + 1]
       /\ returned' = [info |-> info, devices |-> devices(info)]
       /\ discoveries' = [discoveries EXCEPT ![n].count = @ + 1]
       /\ UNCHANGED authvars

devices_discovered(info) ==
    LET n == info.node_id
    IN /\ discoveries[n].count < MaxDiscoveries
       /\ change_verified' = [change_verified EXCEPT ![n][info.value_id] = FALSE]
       /\ IF CONTROLLER_NODE_ID \notin associations[n]
          THEN /\ associations' = [associations EXCEPT
                                      ![n] = add_association(@, CONTROLLER_NODE_ID)]
               /\ add_association_calls' = [add_association_calls EXCEPT ![n] = @ + 1]
          ELSE UNCHANGED <<associations, add_association_calls>>
       /\ returned' = [info |-> info, devices |-> devices(info)]
       /\ discoveries' = [discoveries EXCEPT ![n].count = @ + 1]
       /\ UNCHANGED authvars

InitZwave == InitAuth /\ InitNetwork

NextZwave == \E info \in Infos : devices_discovered(info)

SpecZwave == InitZwave /\ [][NextZwave]_vars

\* ---------------------------------------------------------- specification

\* a step of invocation p on the commands M
Step(p, M) ==
    \/ websocket_create(p, M)
    \/ websocket_delete(p, M)
    \/ websocket_change_password(p, M)
    \/ websocket_admin_change_password(p, M)
    \/ websocket_admin_change_username(p, M)
    \/ Return(p)

\* pre[p] keeps the auth store as it was when the command was dispatched
Snapshot(p) ==
    pre' = [pre EXCEPT ![p] =
        IF pc'[p] = "idle" THEN NoPre
        ELSE IF pc[p] = "idle" THEN [authData |-> authData, userCreds |-> userCreds]
        ELSE @]

\* prev names the user and the username of the command that returned last
\* when that was a create that succeeded for a user who had no credential of
\* the local provider when it was dispatched
Remember(p) ==
    prev' = IF pc[p] = "done" /\ pc'[p] = "idle"
            THEN IF /\ msg[p].type = "create"
                    /\ resp[p] = Result
                    /\ \A i \in 1..Len(pre[p].userCreds[msg[p].user_id]) :
                           ~IsLocal(pre[p].userCreds[msg[p].user_id][i])
                 THEN [user_id |-> msg[p].user_id, username |-> msg[p].username]
                 ELSE NoPrev
            ELSE prev

\* one command at a time: each handler runs to completion before the next
Next == Step(1, Msgs) /\ Snapshot(1) /\ Remember(1) /\ UNCHANGED zwavevars

Spec == Init /\ [][Next]_vars

\* one command at a time, on connections with or without a user
NextUnauthenticated ==
    /\ Step(1, Msgs \cup UnauthenticatedMsgs) /\ Snapshot(1) /\ Remember(1)
    /\ UNCHANGED zwavevars

SpecUnauthenticated == Init /\ [][NextUnauthenticated]_vars

\* the transport layer runs the handlers of distinct requests concurrently
NextConcurrent ==
    /\ \E p \in Procs : Step(p, ConcurrentMsgs)
    /\ UNCHANGED <<pre, prev, zwavevars>>

SpecConcurrent == Init /\ [][NextConcurrent]_vars


\* ================================================================ claims
Finished(p) == pc[p] = "done"
Called(p, name) == \E i \in 1..Len(calls[p]) : calls[p][i] = name

\* the auth store is as it was when p's command was dispatched (Spec only)
StoreUnchanged(p) == authData = pre[p].authData /\ userCreds = pre[p].userCreds

\* username of the caller's first local credential when the command was
\* dispatched, None when the caller had none
PreUsername(p) ==
    LET u == msg[p].conn_user
        i == FirstLocalCredential(pre[p].userCreds, u)
    IN IF i = 0 THEN NoUsername ELSE pre[p].userCreds[u][i].username

LocalCredentials(u) == {i \in 1..Len(userCreds[u]) : IsLocal(userCreds[u][i])}

AdminOnly(p) == msg[p].type \in {"admin_change_password", "admin_change_username"}

\* C1: admin_change_password and admin_change_username called by an admin
\* that is not the owner end with Unauthorized whatever user_id and the other
\* fields are; the user lookup is never made and the store is unchanged.
C1_NonOwnerUnauthorized ==
    \A p \in Procs :
        (AdminOnly(p) /\ msg[p].conn_user \in Admins /\ ~is_owner(msg[p].conn_user))
        => /\ Finished(p)
           /\ resp[p] = Raised("Unauthorized")
           /\ ~Called(p, "async_get_user")
           /\ loc[p].user = Unset
           /\ StoreUnchanged(p)

\* a non-owner admin was refused the password of a user that has a local
\* credential
C1_Witness ==
    \E p \in Procs :
        /\ msg[p].type = "admin_change_password"
        /\ msg[p].conn_user = "admin"
        /\ msg[p].user_id = "admin"
        /\ LocalCredentials("admin") # {}
        /\ resp[p] = Raised("Unauthorized")

\* the current_password of p's change_password did not validate against the
\* caller's local credential when the command was dispatched
WrongCurrentPassword(p) ==
    /\ msg[p].type = "change_password"
    /\ PreUsername(p) # NoUsername
    /\ ~(/\ Registered(pre[p].authData, PreUsername(p))
         /\ pre[p].authData[PreUsername(p)] = Hash(msg[p].current_password))

RejectedUnchanged(p, code) ==
    /\ resp[p] = Error(code)
    /\ StoreUnchanged(p)
    /\ synclog[p] = <<>>
    /\ ~Called(p, "async_change_password")
    /\ ~Called(p, "sync_password_with_firebase")

\* C2 as claimed: change_password with a current_password that does not
\* validate against the caller's local credential fails with
\* invalid_current_password, the stored password is unchanged and the sync
\* side-channel is not invoked.
C2_WrongCurrentPasswordRejected ==
    \A p \in Procs :
        (Finished(p) /\ WrongCurrentPassword(p))
        => RejectedUnchanged(p, "invalid_current_password")

\* C2 amended: change_password with a new_password of at least 6 characters
\* and a current_password that does not validate fails with
\* invalid_current_password; with any new_password the stored password is
\* unchanged (the old one still validates) and the sync side-channel is not
\* invoked.
C2_WrongCurrentPasswordRejectedIfLongEnough ==
    \A p \in Procs :
        (Finished(p) /\ WrongCurrentPassword(p))
        => /\ resp[p].kind = "error"
           /\ Len(msg[p].new_password) >= 6
                => RejectedUnchanged(p, "invalid_current_password")
           /\ StoreUnchanged(p)
           /\ authData[PreUsername(p)] = pre[p].authData[PreUsername(p)]
           /\ synclog[p] = <<>>

\* a wrong current password was refused although the new password is valid
C2_Witness ==
    \E p \in Procs :
        /\ Finished(p)
        /\ WrongCurrentPassword(p)
        /\ msg[p].new_password = P7
        /\ validate_login(authData, PreUsername(p), P6)
        /\ resp[p] = Error("invalid_current_password")

\* C3: change_password with a new_password shorter than 6 ends with
\* invalid_password at once, whatever the current_password and the caller's
\* credentials; neither the provider's change_password nor the sync call is
\* made and the store is unchanged.
C3_ShortPasswordRejected ==
    \A p \in Procs :
        (msg[p].type = "change_password" /\ Len(msg[p].new_password) < 6)
        => /\ Finished(p)
           /\ RejectedUnchanged(p, "invalid_password")
           /\ calls[p] = <<>>

\* a 5-character password was refused to a caller whose current_password is right
C3_Witness ==
    \E p \in Procs :
        /\ msg[p].type = "change_password"
        /\ Len(msg[p].new_password) = 5
        /\ PreUsername(p) # NoUsername
        /\ validate_login(authData, PreUsername(p), msg[p].current_password)
        /\ resp[p] = Error("invalid_password")

\* C4: create against a system-generated user ends with system_generated for
\* every username and password; add_auth and link are not called, the
\* registrations and the credential lists are unchanged.
C4_CreateSystemGeneratedRejected ==
    \A p \in Procs :
        (/\ msg[p].type = "create"
         /\ msg[p].user_id \in UserIds
         /\ system_generated(msg[p].user_id))
        => /\ Finished(p)
           /\ resp[p] = Error("system_generated")
           /\ ~Called(p, "async_add_auth")
           /\ ~Called(p, "async_link_user")
           /\ StoreUnchanged(p)

\* create was refused for a system-generated user with a username that is free
C4_Witness ==
    \E p \in Procs :
        /\ msg[p].type = "create"
        /\ system_generated(msg[p].user_id)
        /\ ~Registered(authData, msg[p].username)
        /\ resp[p] = Error("system_generated")

\* C5: under every interleaving of the five commands, a system-generated
\* user holds no credential that it did not hold initially.
C5_SystemUserGainsNoCredentials ==
    \A u \in UserIds :
        system_generated(u)
        => /\ Len(userCreds[u]) <= Len(InitUserCreds[u])
           /\ \A i \in 1..Len(userCreds[u]) :
                 \E j \in 1..Len(InitUserCreds[u]) : userCreds[u][i] = InitUserCreds[u][j]

\* a create for a system-generated user was refused while another create was
\* about to link its credential
C5_Witness ==
    \E p, q \in Procs :
        /\ p # q
        /\ msg[p].type = "create"
        /\ system_generated(msg[p].user_id)
        /\ resp[p] = Error("system_generated")
        /\ pc[q] = "create_link_user"

\* C6: create for a user that is not system-generated with a username that is
\* not registered answers success, and the user then holds a local credential
\* of that username which validates against the password.
C6_CreateLinksCredential ==
    \A p \in Procs :
        (/\ Finished(p)
         /\ msg[p].type = "create"
         /\ msg[p].user_id \in UserIds
         /\ ~system_generated(msg[p].user_id)
         /\ ~Registered(pre[p].authData, msg[p].username))
        => /\ resp[p] = Result
           /\ \E i \in LocalCredentials(msg[p].user_id) :
                 userCreds[msg[p].user_id][i].username = msg[p].username
           /\ Registered(authData, msg[p].username)
           /\ authData[msg[p].username] = Hash(msg[p].password)

\* a create for the owner, who had no credential, has succeeded
C6_Witness ==
    \E p \in Procs :
        /\ Finished(p)
        /\ msg[p].type = "create"
        /\ msg[p].user_id = "owner"
        /\ pre[p].userCreds["owner"] = <<>>
        /\ ~Registered(pre[p].authData, msg[p].username)
        /\ resp[p] = Result
        /\ Len(userCreds["owner"]) = 1

\* C7 as claimed: every user holds at most one credential of the local provider.
C7_AtMostOneLocalCredential ==
    \A u \in UserIds : Cardinality(LocalCredentials(u)) <= 1

\* C8: the sync side-channel is invoked only by change_password, after
\* validate_login and the provider's change_password, once the new password
\* is stored; the POST carries the caller's username, the old password (the
\* one that validated) and the new password encrypted. No invocation that
\* answers an error, and no other command, invokes it.
C8_SyncOnlyAfterPasswordChange ==
    \A p \in Procs :
        (Called(p, "sync_password_with_firebase") \/ synclog[p] # <<>>)
        => /\ msg[p].type = "change_password"
           /\ calls[p] = <<"async_validate_login", "async_change_password",
                           "sync_password_with_firebase">>
           /\ resp[p].kind # "error"
           /\ PreUsername(p) # NoUsername
           /\ pre[p].authData[PreUsername(p)] = Hash(msg[p].current_password)
           /\ authData[PreUsername(p)] = Hash(msg[p].new_password)
           /\ Len(synclog[p]) = 1
           /\ synclog[p][1].body.email = PreUsername(p)
           /\ synclog[p][1].body.currentPassword = msg[p].current_password
           /\ synclog[p][1].body.newPassword
                 = <<"base64", <<"aes-cbc", PKCS7(msg[p].new_password)>>>>

\* a change_password from P6 to P7 has been synced
C8_Witness ==
    \E p \in Procs :
        /\ Finished(p)
        /\ msg[p].current_password = P6
        /\ msg[p].new_password = P7
        /\ Len(synclog[p]) = 1
        /\ synclog[p][1].outcome = "200"
        /\ resp[p] = Result

\* C9 as claimed: once change_password has stored the new password it answers
\* success, whatever comes of the sync call.
C9_SyncFailureNotSurfaced ==
    \A p \in Procs :
        (/\ Finished(p)
         /\ msg[p].type = "change_password"
         /\ Called(p, "async_change_password")
         /\ resp[p] # Raised("InvalidUser"))
        => resp[p] = Result

\* C10 as claimed: every invocation ends with a success or a structured error
\* (the Unauthorized of the owner check counted as one); no error of the
\* provider, the store or the sync call escapes the handler.
C10_NoEscapingException ==
    \A p \in Procs :
        Finished(p)
        => \/ resp[p].kind \in {"result", "error"}
           \/ resp[p] = Raised("Unauthorized")


\* a credential of the local provider with the username was linked when p's
\* command was dispatched
ExistedBefore(p) ==
    ExistingCredentials(pre[p].userCreds, msg[p].username) # NoRef

\* C11 as claimed: delete answers success on both branches; when a credential
\* for the username exists it is removed from the store by
\* async_remove_credentials and remove_auth is not called, when none exists
\* remove_auth is called and async_remove_credentials is not.
C11_DeleteSucceedsOnBothBranches ==
    \A p \in Procs :
        (Finished(p) /\ msg[p].type = "delete")
        => /\ resp[p] = Result
           /\ ExistedBefore(p)
                => /\ calls[p] = <<"async_get_or_create_credentials",
                                   "async_remove_credentials">>
                   /\ ExistingCredentials(userCreds, msg[p].username) = NoRef
           /\ ~ExistedBefore(p)
                => calls[p] = <<"async_get_or_create_credentials", "async_remove_auth">>


\* the command that returned just before p's is a create that succeeded for
\* a user who had no credential of the local provider, and p's is the delete
\* of the username it registered
CreateThenDelete(p) ==
    /\ Finished(p)
    /\ msg[p].type = "delete"
    /\ prev # NoPrev
    /\ msg[p].username = prev.username

\* C12: create(U.id, username, password) succeeding for a user U without a
\* local credential, followed by delete(username), leaves U without any
\* credential of the local provider and the username unknown to the
\* provider, whatever password is tried; the delete answers success.
C12_CreateThenDeleteRoundTrip ==
    \A p \in Procs :
        CreateThenDelete(p)
        => /\ resp[p] = Result
           /\ LocalCredentials(prev.user_id) = {}
           /\ \A w \in Passwords : ~validate_login(authData, msg[p].username, w)

C12_Witness ==
    \E p \in Procs :
        /\ CreateThenDelete(p)
        /\ resp[p] = Result
        /\ Called(p, "async_remove_credentials")
        /\ \E w \in Passwords : validate_login(pre[p].authData, msg[p].username, w)
        /\ \E i \in 1..Len(pre[p].userCreds[prev.user_id]) :
               pre[p].userCreds[prev.user_id][i] =
                   [ptype |-> PROVIDER_TYPE, username |-> msg[p].username]


\* p's command is an admin_change_username of the owner that has returned,
\* for a user that held a credential of the local provider at dispatch
RenameOfLocalCredential(p) ==
    /\ Finished(p)
    /\ msg[p].type = "admin_change_username"
    /\ is_owner(msg[p].conn_user)
    /\ msg[p].user_id \in UserIds
    /\ \E i \in 1..Len(pre[p].userCreds[msg[p].user_id]) :
           IsLocal(pre[p].userCreds[msg[p].user_id][i])

\* p answered success, the target's first local credential carries the new
\* username with the password it had, and every other credential and every
\* other registration is as it was at dispatch
Renamed(p) ==
    LET t == msg[p].user_id
        old == pre[p].userCreds[t]
    IN /\ resp[p] = Result
       /\ \E i \in 1..Len(old) :
             /\ IsLocal(old[i])
             /\ \A j \in 1..(i - 1) : ~IsLocal(old[j])
             /\ userCreds = [pre[p].userCreds EXCEPT ![t][i].username = msg[p].username]
             /\ authData = [pre[p].authData EXCEPT
                               ![msg[p].username] = pre[p].authData[old[i].username],
                               ![old[i].username] = NoAuth]

OwnerChangedPassword(p) ==
    /\ Finished(p)
    /\ msg[p].type = "admin_change_password"
    /\ is_owner(msg[p].conn_user)

\* the password of the first local credential of user t is the one given,
\* and nothing else in the store differs from what it was at dispatch
PasswordSet(p, t, password) ==
    LET old == pre[p].userCreds[t]
    IN /\ userCreds = pre[p].userCreds
       /\ \E i \in 1..Len(old) :
             /\ IsLocal(old[i])
             /\ \A j \in 1..(i - 1) : ~IsLocal(old[j])
             /\ authData = [pre[p].authData EXCEPT ![old[i].username] = Hash(password)]
             /\ validate_login(authData, old[i].username, password)

\* C14: admin_change_password of the owner answers user_not_found when the
\* user_id does not resolve and credentials_not_found when the target has no
\* local credential, the store unchanged in both cases; otherwise it sets the
\* password of the target's first local credential to the one given, of any
\* length and without asking for the current one, and answers success.
C14_AdminChangePassword ==
    \A p \in Procs :
        OwnerChangedPassword(p)
        => IF msg[p].user_id \notin UserIds
           THEN resp[p] = Error("user_not_found") /\ StoreUnchanged(p)
           ELSE IF \A i \in 1..Len(pre[p].userCreds[msg[p].user_id]) :
                       ~IsLocal(pre[p].userCreds[msg[p].user_id][i])
           THEN resp[p] = Error("credentials_not_found") /\ StoreUnchanged(p)
           ELSE resp[p] = Result /\ PasswordSet(p, msg[p].user_id, msg[p].password)

C14_Witness ==
    \E p \in Procs :
        /\ OwnerChangedPassword(p)
        /\ resp[p] = Result
        /\ Len(msg[p].password) < MIN_PASSWORD_LEN
        /\ authData # pre[p].authData
        /\ msg[p].user_id # msg[p].conn_user


\* the number of times invocation p has called name
TimesCalled(p, name) ==
    Cardinality({i \in 1..Len(calls[p]) : calls[p][i] = name})

\* C15: an invocation makes the sync call at most once and issues at most one
\* POST; once the POST is made, whatever its outcome, the invocation is over:
\* a failed or non-200 POST is not made again.
C15_SyncAtMostOnce ==
    \A p \in Procs :
        /\ TimesCalled(p, "sync_password_with_firebase") <= 1
        /\ Len(synclog[p]) <= 1
        /\ synclog[p] # <<>> => Finished(p)

\* two invocations are over, each after one POST, neither answered 200
C15_Witness ==
    /\ \A p \in Procs :
          /\ Finished(p)
          /\ Len(synclog[p]) = 1
          /\ TimesCalled(p, "sync_password_with_firebase") = 1
    /\ synclog[1][1].outcome = "500"
    /\ synclog[2][1].outcome = "ClientError"


\* the error code the order of the claim gives p's change_password, "" when
\* every check passes; evaluated on the store as it was at dispatch
FirstFailingCheck(p) ==
    LET u == msg[p].conn_user
    IN IF u = NoUser THEN "user_not_found"
       ELSE IF Len(msg[p].new_password) < 6 THEN "invalid_password"
       ELSE IF \A i \in 1..Len(pre[p].userCreds[u]) : ~IsLocal(pre[p].userCreds[u][i])
            THEN "credentials_not_found"
       ELSE IF ~validate_login(pre[p].authData, PreUsername(p), msg[p].current_password)
            THEN "invalid_current_password"
       ELSE ""

\* C16: change_password answers the first check that fails in the order
\* user_not_found, invalid_password, credentials_not_found,
\* invalid_current_password, and calls validate_login only when the first
\* three pass; a short new_password with a wrong current_password is
\* answered invalid_password without any call.
C16_ChecksInFixedOrder ==
    \A p \in Procs :
        (Finished(p) /\ msg[p].type = "change_password")
        => /\ IF FirstFailingCheck(p) # ""
              THEN resp[p] = Error(FirstFailingCheck(p))
              ELSE resp[p].kind # "error"
           /\ FirstFailingCheck(p) \in {"user_not_found", "invalid_password",
                                        "credentials_not_found"}
                 => calls[p] = <<>>
           /\ FirstFailingCheck(p) = "invalid_current_password"
                 => calls[p] = <<"async_validate_login">>

\* a short new_password with a wrong current_password, for a caller that has
\* a local credential
C16_Witness ==
    \E p \in Procs :
        /\ Finished(p)
        /\ msg[p].type = "change_password"
        /\ msg[p].conn_user # NoUser
        /\ PreUsername(p) # NoUsername
        /\ Len(msg[p].new_password) < 6
        /\ ~validate_login(pre[p].authData, PreUsername(p), msg[p].current_password)
        /\ resp[p] = Error("invalid_password")
        /\ ~Called(p, "async_validate_login")

\* a connection without a user, with a short new_password, is answered
\* user_not_found
C16_WitnessNoUser ==
    \E p \in Procs :
        /\ Finished(p)
        /\ msg[p].conn_user = NoUser
        /\ msg[p].type = "change_password"
        /\ Len(msg[p].new_password) < 6
        /\ resp[p] = Error("user_not_found")


\* the step in which invocation p's change_password stores the new password
PasswordUpdate(p) ==
    /\ msg[p].type = "change_password"
    /\ pc[p] = "change_password_change"
    /\ pc'[p] = "change_password_sync"

\* C17 as claimed: under any interleaving, when a change_password stores the
\* new password, the username it stores it for is that of a local credential
\* linked to the calling user at that moment.
C17_UpdatesOnlyCallersCredential ==
    [][\A p \in Procs :
          PasswordUpdate(p)
          => \E i \in LocalCredentials(msg[p].conn_user) :
                userCreds[msg[p].conn_user][i].username = loc[p].username]_vars


\* C18 as claimed: the check of current_password and the update are one
\* atomic step, so the new password is stored only if current_password
\* validates against the stored registration at the moment of the update.
C18_UpdateOnlyIfCurrentValidates ==
    [][\A p \in Procs :
          PasswordUpdate(p)
          => validate_login(authData, loc[p].username, msg[p].current_password)]_vars


\* C19: devices_discovered calls add_association for a node only when the
\* controller is not yet a member of the node's group 1, so whatever the
\* number of discoveries for a node the call is made at most once for it
\* (never for a node the controller was already associated with); it returns
\* one ZWaveBinarySensor for a binary-sensor value, one ZWaveMultilevelSensor
\* for a multilevel-sensor value, and no list for any other command class.
C19_AssociatedOnceAndDevicesByClass ==
    /\ \A n \in Nodes :
          /\ add_association_calls[n] <= 1
          /\ add_association_calls[n] = 1
                <=> (discoveries[n].count > 0
                     /\ CONTROLLER_NODE_ID \notin discoveries[n].before)
          /\ associations[n] = IF discoveries[n].count > 0
                               THEN discoveries[n].before \cup {CONTROLLER_NODE_ID}
                               ELSE discoveries[n].before
    /\ returned # NoDiscovery
          => LET cc == command_class(returned.info.value_id)
             IN CASE cc = "COMMAND_CLASS_SENSOR_BINARY" ->
                        returned.devices
                            = {<<[class |-> "ZWaveBinarySensor", value |-> returned.info]>>}
                  [] cc = "COMMAND_CLASS_SENSOR_MULTILEVEL" ->
                        returned.devices
                            = {<<[class |-> "ZWaveMultilevelSensor", value |-> returned.info]>>}
                  [] OTHER -> returned.devices = {}

\* a node discovered as often as the bound allows, the controller associated
\* by one call, the last discovery that of a multilevel sensor
C19_Witness ==
    \E n \in Nodes :
        /\ discoveries[n].count = MaxDiscoveries
        /\ add_association_calls[n] = 1
        /\ returned.info = [node_id |-> n, value_id |-> "v2"]
        /\ returned.devices # None
        /\ \E v \in ValueIds : command_class(v) = COMMAND_CLASS_SWITCH_BINARY
                               /\ ~change_verified[n][v]

====
